---- MODULE Spec2Model ----
(***************************************************************************)
(* A model of the pipeline service of src/main.py: the POST /pipeline      *)
(* handler run_pipeline with its helpers fetch_top_ids, fetch_story,       *)
(* analyze_text, save_to_db and send_notification.                         *)
(*                                                                         *)
(* Text is a sequence of one-character strings.  A JSON value is a record  *)
(* [t, s]: t is "str", "num" or "null" and s the characters of a string.   *)
(* A request handler is a process; its steps are cut at the calls it makes *)
(* to the outside (upstream API, database, notification).                  *)
(***************************************************************************)
EXTENDS Integers, Sequences, FiniteSets, TLC

\* ------------------------------------------------------------------ bounds
NumRequests == 2      \* requests handled concurrently under SpecConc
MaxTop == 4           \* longest top-stories list the upstream returns
MaxClock == 1         \* latest reading of the clock
MaxTokens == 3        \* most tokens of an input text of analyze_text

\* ------------------------------------------------------- program constants
BatchSize == 3        \* fetch_top_ids()[:3]
SummaryLen == 200     \* text[:200]

VARIABLES
    topstories,        \* what topstories.json answers: a sequence of ids
    clock,             \* the last reading of datetime.utcnow()
    db,                \* the rows of table "stories", in insertion order
    requests,          \* the requests of this behaviour
    request,           \* request[r]: the PipelineRequest (email, source)
    pc,                \* pc[r]: where handler r stands
    ids,               \* ids[r]: local ids
    idx,               \* idx[r]: position of the for loop in ids[r]
    cur,               \* cur[r]: locals title, content, analysis, sentiment
    results,           \* results[r]: local results
    errors,            \* errors[r]: local errors
    response,          \* response[r]: the returned dict
    calls,             \* calls[r]: the calls handler r has made, by callee
    outcome,           \* outcome[r]: how each loop iteration ended
    text,              \* the argument of a call of analyze_text
    out                \* what that call returned

vars == <<topstories, clock, db, requests, request, pc, ids, idx, cur,
          results, errors, response, calls, outcome, text, out>>

pipeVars == <<topstories, clock, db, requests, request, pc, ids, idx, cur,
              results, errors, response, calls, outcome>>

\* ------------------------------------------------------------- JSON values
Str(s) == [t |-> "str", s |-> s]
Null == [t |-> "null", s |-> <<>>]
Num == [t |-> "num", s |-> <<>>]          \* a number other than 0

\* Python truthiness: "" and None are false, a non-zero number is true.
Truthy(v) == \/ v.t = "str" /\ v.s # <<>>
             \/ v.t = "num"

\* a or b
PyOr(a, b) == IF Truthy(a) THEN a ELSE b

\* d.get(k, default) of a dict d, a function from keys to values
Get(d, k, default) == IF k \in DOMAIN d THEN d[k] ELSE default

Min(a, b) == IF a < b THEN a ELSE b

\* s[:n]
Take(s, n) == SubSeq(s, 1, Min(n, Len(s)))

\* ----------------------------------------------------------- analyze_text
UpperCase == <<"A", "B", "C", "D", "E", "F", "G", "H", "I", "J", "K", "L", "M",
              "N", "O", "P", "Q", "R", "S", "T", "U", "V", "W", "X", "Y", "Z">>
LowerCase == <<"a", "b", "c", "d", "e", "f", "g", "h", "i", "j", "k", "l", "m",
              "n", "o", "p", "q", "r", "s", "t", "u", "v", "w", "x", "y", "z">>

\* one character of str.lower()
LowerChar(c) ==
    IF \E i \in 1..Len(UpperCase) : UpperCase[i] = c
    THEN LowerCase[CHOOSE i \in 1..Len(UpperCase) : UpperCase[i] = c]
    ELSE c

\* text.lower()
Lower(s) == [i \in 1..Len(s) |-> LowerChar(s[i])]

positive_words == <<
    <<"g", "o", "o", "d">>,
    <<"g", "r", "e", "a", "t">>,
    <<"e", "x", "c", "e", "l", "l", "e", "n", "t">>,
    <<"s", "u", "c", "c", "e", "s", "s">>,
    <<"w", "i", "n">>,
    <<"g", "r", "o", "w", "t", "h">>,
    <<"a", "m", "a", "z", "i", "n", "g">>,
    <<"b", "r", "e", "a", "k", "t", "h", "r", "o", "u", "g", "h">>,
    <<"i", "n", "n", "o", "v", "a", "t", "i", "o", "n">>,
    <<"r", "e", "c", "o", "r", "d">> >>

negative_words == <<
    <<"b", "a", "d">>,
    <<"p", "o", "o", "r">>,
    <<"f", "a", "i", "l">>,
    <<"l", "o", "s", "s">>,
    <<"d", "e", "c", "l", "i", "n", "e">>,
    <<"p", "r", "o", "b", "l", "e", "m">>,
    <<"i", "s", "s", "u", "e">>,
    <<"c", "r", "a", "s", "h">>,
    <<"d", "r", "o", "p">>,
    <<"r", "i", "s", "k">> >>

\* word in text: word occurs as a contiguous run of characters of text
Contains(word, s) ==
    \E i \in 1..(Len(s) - Len(word) + 1) :
        \A j \in 1..Len(word) : s[i + j - 1] = word[j]

\* sum(word in text_lower for word in words)
Score(words, s) == Cardinality({i \in 1..Len(words) : Contains(words[i], s)})

\* Label with a tie counted as positive (>= for >)
LabelTiePositive(positive_score, negative_score) ==
    IF positive_score >= negative_score THEN "enthusiastic"
    ELSE IF negative_score > positive_score THEN "critical"
    ELSE "objective"

\* the if / elif / else over the two scores
Label(positive_score, negative_score) ==
    IF positive_score > negative_score THEN "enthusiastic"
    ELSE IF negative_score > positive_score THEN "critical"
    ELSE "objective"

\* Summary cut one character late (text[:201])
SummaryOneMore(s) == Take(s, SummaryLen + 1)

\* summary = text[:200]
Summary(s) == Take(s, SummaryLen)

NoContent == <<"N", "o", " ", "c", "o", "n", "t", "e", "n",
              "t", " ", "a", "v", "a", "i", "l", "a", "b", "l", "e", ".">>

\* analyze_text(text): raised is TRUE when the call raises (text.lower() of a
\* value that is no string), else summary and sentiment are what it returns.
analyze_text(v) ==
    IF ~Truthy(v)
    THEN [raised |-> FALSE, summary |-> Str(NoContent), sentiment |-> "objective"]
    ELSE IF v.t # "str"
    THEN [raised |-> TRUE, summary |-> Null, sentiment |-> "none"]
    ELSE [raised |-> FALSE,
          summary |-> Str(Summary(v.s)),
          sentiment |-> Label(Score(positive_words, Lower(v.s)),
                              Score(negative_words, Lower(v.s)))]

\* ------------------------------------------------------------ the upstream
\* An answer of item/<id>.json: a JSON object (t = "obj", d its fields) or
\* the JSON null the API gives for an id it has no item for.
Obj(d) == [t |-> "obj", d |-> d]
NullItem == [t |-> "null", d |-> <<>>]

StoryIds == 1..6

\* What the upstream holds.  1: a story without a body.  2: a story with a
\* body.  3: a body that is the empty string.  4: no item.  5: a body that
\* is no string.  6: an object with neither field.
Catalog ==
    (1 :> Obj("title" :> Str(<<"R", "e", "c", "o", "r", "d", " ", "g", "r", "o", "w", "t", "h">>)))
 @@ (2 :> Obj(("title" :> Str(<<"A", "s", "k">>)) @@ ("text" :> Str(<<"B", "a", "d", " ", "c", "r", "a", "s", "h">>))))
 @@ (3 :> Obj(("title" :> Str(<<"J", "o", "b">>)) @@ ("text" :> Str(<<>>))))
 @@ (4 :> NullItem)
 @@ (5 :> Obj(("title" :> Str(<<"P", "o", "l", "l">>)) @@ ("text" :> Num)))
 @@ (6 :> Obj(<<>>))

Ranking == <<1, 2, 3, 4, 5, 6, 1, 2, 3>>

\* The lists topstories.json may answer: the runs of Ranking.
TopLists ==
    {SubSeq(Ranking, a, a + n - 1) : a \in 1..Len(Ranking) - MaxTop + 1, n \in 0..MaxTop}

\* The lists of the concurrent runs: at most one story, of the first two.
ConcTopLists == {<<>>, <<1>>, <<2>>}

Emails == {"a@example.com"}
Sources == {"hackernews", "manual"}

\* What fetch_top_ids()[:3] raises: the call times out, the status is an
\* error, or the answer is a JSON value that cannot be sliced
TopCauses == {"Timeout", "HTTPError", "TypeError"}

\* What fetch_story(story_id) raises
FetchCauses == {"HTTPError"}

\* ------------------------------------------------------------ run_pipeline
Procs == 1..NumRequests

NoCur == [title |-> Null, content |-> Null, analysis |-> Null, sentiment |-> "none"]

NoResponse == [items |-> <<>>, notificationSent |-> FALSE, processedAt |-> 0,
               errors |-> <<>>]

NoCalls == [top |-> 0, detail |-> <<>>, save |-> 0, notify |-> 0]

NoOutcome == [top |-> "none", items |-> <<>>, notify |-> "none"]

\* f"Failed fetching top stories: {str(e)}"
TopError(cause) == [kind |-> "Failed fetching top stories", cause |-> cause]

\* f"Story {story_id} failed: {str(e)}"
StoryError(story_id, cause) == [kind |-> "Story failed", id |-> story_id, cause |-> cause]

\* f"Notification failed: {str(e)}"
NotifyError(cause) == [kind |-> "Notification failed", cause |-> cause]

\* ids = fetch_top_ids()[:3]
Truncate(top) == Take(top, BatchSize)

\* the dict returned when fetch_top_ids fails
TopFailReport(cause, now) ==
    [items |-> <<>>, notificationSent |-> FALSE, processedAt |-> now,
     errors |-> <<TopError(cause)>>]

\* title = story_data.get("title", "")
TitleOf(d) == Get(d, "title", Str(<<>>))

\* ContentOf with the operands of "or" exchanged (title or text)
ContentTitleFirst(d) == PyOr(TitleOf(d), Get(d, "text", Str(<<>>)))

\* content = story_data.get("text", "") or title
ContentOf(d) == PyOr(Get(d, "text", Str(<<>>)), TitleOf(d))

\* the Story row save_to_db adds; by is the request that wrote it
Row(c, source, now, n, r) ==
    [id |-> n, title |-> c.title, content |-> c.content, analysis |-> c.analysis,
     sentiment |-> c.sentiment, source |-> source, timestamp |-> now, by |-> r]

\* save_to_db replacing the row that holds the same title, if there is one
save_to_db_upsert(rows, c, source, now, r) ==
    IF \E i \in 1..Len(rows) : rows[i].title = c.title
    THEN LET i == CHOOSE j \in 1..Len(rows) : rows[j].title = c.title
         IN  [rows EXCEPT ![i] = Row(c, source, now, i, r)]
    ELSE Append(rows, Row(c, source, now, Len(rows) + 1, r))

\* session.add(story); session.commit()
save_to_db(rows, c, source, now, r) == Append(rows, Row(c, source, now, Len(rows) + 1, r))

\* the dict appended to results
ResultOf(c, now) ==
    [original |-> c.title, analysis |-> c.analysis, sentiment |-> c.sentiment,
     stored |-> TRUE, timestamp |-> now]

\* the dict returned at the end of run_pipeline
Report(items, notification_sent, now, errs) ==
    [items |-> items, notificationSent |-> notification_sent, processedAt |-> now,
     errors |-> errs]

\* where the for loop goes with position i: its body, or the code after it
LoopPc(list, i) == IF i <= Len(list) THEN "fetch" ELSE "notify"

\* the id of the running iteration
StoryId(r) == ids[r][idx[r]]

Now == clock..MaxClock

\* ---------------------------------------------------------------- actions
\* ItemFailed leaving the loop (break for continue)
ItemFailedBreaks(r, cause, how) ==
    /\ errors' = [errors EXCEPT ![r] = Append(@, StoryError(StoryId(r), cause))]
    /\ outcome' = [outcome EXCEPT ![r].items = Append(@, [id |-> StoryId(r), end |-> how])]
    /\ idx' = [idx EXCEPT ![r] = @ + 1]
    /\ pc' = [pc EXCEPT ![r] = "notify"]
    /\ cur' = [cur EXCEPT ![r] = NoCur]

\* except Exception as e: errors.append(...); continue  (lines 186-188)
ItemFailed(r, cause, how) ==
    /\ errors' = [errors EXCEPT ![r] = Append(@, StoryError(StoryId(r), cause))]
    /\ outcome' = [outcome EXCEPT ![r].items = Append(@, [id |-> StoryId(r), end |-> how])]
    /\ idx' = [idx EXCEPT ![r] = @ + 1]
    /\ pc' = [pc EXCEPT ![r] = LoopPc(ids[r], idx[r] + 1)]
    /\ cur' = [cur EXCEPT ![r] = NoCur]

\* fetch_top_ids()[:3] returns
FetchTopIdsOk(r) ==
    /\ pc[r] = "start"
    /\ calls' = [calls EXCEPT ![r].top = @ + 1]
    /\ outcome' = [outcome EXCEPT ![r].top = "ok"]
    /\ ids' = [ids EXCEPT ![r] = Truncate(topstories)]
    /\ idx' = [idx EXCEPT ![r] = 1]
    /\ pc' = [pc EXCEPT ![r] = LoopPc(Truncate(topstories), 1)]
    /\ UNCHANGED <<topstories, clock, db, requests, request, cur, results, errors,
                   response, text, out>>

\* FetchTopIdsFail without the return: the error is kept and the handler goes on
FetchTopIdsFailGoesOn(r) ==
    /\ pc[r] = "start"
    /\ calls' = [calls EXCEPT ![r].top = @ + 1]
    /\ \E cause \in TopCauses :
        /\ outcome' = [outcome EXCEPT ![r].top = cause]
        /\ errors' = [errors EXCEPT ![r] = Append(@, TopError(cause))]
    /\ pc' = [pc EXCEPT ![r] = LoopPc(ids[r], 1)]
    /\ UNCHANGED <<topstories, clock, db, requests, request, ids, idx, cur, results,
                   response, text, out>>

\* fetch_top_ids()[:3] raises: the handler returns at once
FetchTopIdsFail(r) ==
    /\ pc[r] = "start"
    /\ calls' = [calls EXCEPT ![r].top = @ + 1]
    /\ \E cause \in TopCauses, now \in Now :
        /\ outcome' = [outcome EXCEPT ![r].top = cause]
        /\ response' = [response EXCEPT ![r] = TopFailReport(cause, now)]
        /\ clock' = now
    /\ pc' = [pc EXCEPT ![r] = "done"]
    /\ UNCHANGED <<topstories, db, requests, request, ids, idx, cur, results, errors,
                   text, out>>

\* FetchStoryFail outside the try: the exception leaves the handler
FetchStoryFailUncaught(r) ==
    /\ pc[r] = "fetch"
    /\ calls' = [calls EXCEPT ![r].detail = Append(@, StoryId(r))]
    /\ pc' = [pc EXCEPT ![r] = "raised"]
    /\ UNCHANGED <<topstories, clock, db, requests, request, ids, idx, cur, results,
                   errors, response, outcome, text, out>>

\* fetch_story(story_id) raises
FetchStoryFail(r) ==
    /\ pc[r] = "fetch"
    /\ calls' = [calls EXCEPT ![r].detail = Append(@, StoryId(r))]
    /\ \E cause \in FetchCauses : ItemFailed(r, cause, "fetch")
    /\ UNCHANGED <<topstories, clock, db, requests, request, ids, results, response,
                   text, out>>

\* fetch_story(story_id) returns; title, content, analysis and sentiment are
\* computed from the answer (lines 169-174), which raises when the answer is
\* no object or the content no string
FetchStoryOk(r) ==
    /\ pc[r] = "fetch"
    /\ calls' = [calls EXCEPT ![r].detail = Append(@, StoryId(r))]
    /\ LET story_data == Catalog[StoryId(r)]
       IN  IF story_data.t # "obj"
           THEN ItemFailed(r, "AttributeError", "extract")
           ELSE LET title == TitleOf(story_data.d)
                    content == ContentOf(story_data.d)
                    a == analyze_text(content)
                IN  IF a.raised
                    THEN ItemFailed(r, "AttributeError", "classify")
                    ELSE /\ cur' = [cur EXCEPT ![r] =
                                       [title |-> title, content |-> content,
                                        analysis |-> a.summary, sentiment |-> a.sentiment]]
                         /\ pc' = [pc EXCEPT ![r] = "save"]
                         /\ UNCHANGED <<errors, outcome, idx>>
    /\ UNCHANGED <<topstories, clock, db, requests, request, ids, results, response,
                   text, out>>

\* save_to_db(...) commits and the result is appended (lines 176-184)
SaveOk(r) ==
    /\ pc[r] = "save"
    /\ calls' = [calls EXCEPT ![r].save = @ + 1]
    /\ \E t1 \in Now :
        \E t2 \in t1..MaxClock :
            /\ db' = save_to_db(db, cur[r], request[r].source, t1, r)
            /\ results' = [results EXCEPT ![r] = Append(@, ResultOf(cur[r], t2))]
            /\ clock' = t2
    /\ outcome' = [outcome EXCEPT ![r].items = Append(@, [id |-> StoryId(r), end |-> "stored"])]
    /\ idx' = [idx EXCEPT ![r] = @ + 1]
    /\ pc' = [pc EXCEPT ![r] = LoopPc(ids[r], idx[r] + 1)]
    /\ cur' = [cur EXCEPT ![r] = NoCur]
    /\ UNCHANGED <<topstories, requests, request, ids, errors, response, text, out>>

\* SaveFail with the result appended before the save
SaveFailKeepsResult(r) ==
    /\ pc[r] = "save"
    /\ calls' = [calls EXCEPT ![r].save = @ + 1]
    /\ \E now \in Now :
        /\ results' = [results EXCEPT ![r] = Append(@, ResultOf(cur[r], now))]
        /\ clock' = now
    /\ ItemFailed(r, "OperationalError", "save")
    /\ UNCHANGED <<topstories, db, requests, request, ids, response, text, out>>

\* save_to_db(...) raises, at session.commit() or before: nothing is committed
SaveFail(r) ==
    /\ pc[r] = "save"
    /\ calls' = [calls EXCEPT ![r].save = @ + 1]
    /\ ItemFailed(r, "OperationalError", "save")
    /\ UNCHANGED <<topstories, clock, db, requests, request, ids, results, response,
                   text, out>>

\* send_notification(request.email) returns True; the report is returned
NotifyOk(r) ==
    /\ pc[r] = "notify"
    /\ calls' = [calls EXCEPT ![r].notify = @ + 1]
    /\ outcome' = [outcome EXCEPT ![r].notify = "ok"]
    /\ \E now \in Now :
        /\ response' = [response EXCEPT ![r] = Report(results[r], TRUE, now, errors[r])]
        /\ clock' = now
    /\ pc' = [pc EXCEPT ![r] = "done"]
    /\ UNCHANGED <<topstories, db, requests, request, ids, idx, cur, results, errors,
                   text, out>>

\* NotifyFail with notification_sent set before the call
NotifyFailReportsSent(r) ==
    /\ pc[r] = "notify"
    /\ calls' = [calls EXCEPT ![r].notify = @ + 1]
    /\ outcome' = [outcome EXCEPT ![r].notify = "failed"]
    /\ errors' = [errors EXCEPT ![r] = Append(@, NotifyError("UnicodeEncodeError"))]
    /\ \E now \in Now :
        /\ response' = [response EXCEPT ![r] =
                           Report(results[r], TRUE, now, errors'[r])]
        /\ clock' = now
    /\ pc' = [pc EXCEPT ![r] = "done"]
    /\ UNCHANGED <<topstories, db, requests, request, ids, idx, cur, results, text, out>>

\* NotifyFail with the error put in front of the list
NotifyFailPrepends(r) ==
    /\ pc[r] = "notify"
    /\ calls' = [calls EXCEPT ![r].notify = @ + 1]
    /\ outcome' = [outcome EXCEPT ![r].notify = "failed"]
    /\ errors' = [errors EXCEPT ![r] = <<NotifyError("UnicodeEncodeError")>> \o @]
    /\ \E now \in Now :
        /\ response' = [response EXCEPT ![r] =
                           Report(results[r], FALSE, now, errors'[r])]
        /\ clock' = now
    /\ pc' = [pc EXCEPT ![r] = "done"]
    /\ UNCHANGED <<topstories, db, requests, request, ids, idx, cur, results, text, out>>

\* send_notification(request.email) raises (its print does); the error is
\* appended and the report is returned
NotifyFail(r) ==
    /\ pc[r] = "notify"
    /\ calls' = [calls EXCEPT ![r].notify = @ + 1]
    /\ outcome' = [outcome EXCEPT ![r].notify = "failed"]
    /\ errors' = [errors EXCEPT ![r] = Append(@, NotifyError("UnicodeEncodeError"))]
    /\ \E now \in Now :
        /\ response' = [response EXCEPT ![r] =
                           Report(results[r], FALSE, now, errors'[r])]
        /\ clock' = now
    /\ pc' = [pc EXCEPT ![r] = "done"]
    /\ UNCHANGED <<topstories, db, requests, request, ids, idx, cur, results, text, out>>

Step(r) ==
    \/ FetchTopIdsOk(r)
    \/ FetchTopIdsFail(r)
    \/ FetchStoryFail(r)
    \/ FetchStoryOk(r)
    \/ SaveOk(r)
    \/ SaveFail(r)
    \/ NotifyOk(r)
    \/ NotifyFail(r)

\* ------------------------------------------------------- the specifications
NoText == Null
NoOut == [raised |-> FALSE, summary |-> Null, sentiment |-> "none"]

PipelineInit(R, tops) ==
    /\ topstories \in tops
    /\ requests = R
    /\ request \in [R -> [email : Emails, source : Sources]]
    /\ db = <<>>
    /\ pc = [r \in R |-> "start"]
    /\ ids = [r \in R |-> <<>>]
    /\ idx = [r \in R |-> 1]
    /\ cur = [r \in R |-> NoCur]
    /\ results = [r \in R |-> <<>>]
    /\ errors = [r \in R |-> <<>>]
    /\ response = [r \in R |-> NoResponse]
    /\ calls = [r \in R |-> NoCalls]
    /\ outcome = [r \in R |-> NoOutcome]
    /\ text = NoText
    /\ out = NoOut

\* one request, any list of top stories, any clock
Init == PipelineInit({1}, TopLists) /\ clock = 0

Next ==
    \/ \E r \in requests : FetchTopIdsOk(r)
    \/ \E r \in requests : FetchTopIdsFail(r)
    \/ \E r \in requests : FetchStoryFail(r)
    \/ \E r \in requests : FetchStoryOk(r)
    \/ \E r \in requests : SaveOk(r)
    \/ \E r \in requests : SaveFail(r)
    \/ \E r \in requests : NotifyOk(r)
    \/ \E r \in requests : NotifyFail(r)

Spec == Init /\ [][Next]_vars

\* the handler runs until it returns
FairSpec == Spec /\ \A r \in Procs : WF_vars(r \in requests /\ Step(r))

\* NumRequests requests at once, sharing the database
InitConc == PipelineInit(Procs, ConcTopLists) /\ clock = MaxClock

SpecConc == InitConc /\ [][Next]_vars

\* ------------------------------------------------ analyze_text on its own
\* a run of 100 characters that belongs to no word of the lists
Filler == [i \in 1..100 |-> "x"]

\* the pieces the input texts are made of
Tokens == {
    <<"g", "r", "e", "a", "t">>,
    <<" ", "g", "r", "o", "w", "t", "h">>,
    <<",", " ", "n", "o", " ", "p", "r", "o", "b", "l", "e", "m">>,
    <<"L", "O", "S", "S">>,
    <<"R", "i", "s", "k">>,
    Filler }

RECURSIVE Flatten(_)
Flatten(ts) == IF ts = <<>> THEN <<>> ELSE Head(ts) \o Flatten(Tail(ts))

\* the arguments analyze_text is called with
Inputs ==
    {Str(Flatten(ts)) : ts \in UNION {[1..n -> Tokens] : n \in 0..MaxTokens}}
        \cup {Null, Num}

InitAnalyze ==
    /\ text \in Inputs
    /\ out = NoOut
    /\ topstories = <<>>
    /\ clock = 0
    /\ db = <<>>
    /\ requests = {}
    /\ request = <<>>
    /\ pc = <<>>
    /\ ids = <<>>
    /\ idx = <<>>
    /\ cur = <<>>
    /\ results = <<>>
    /\ errors = <<>>
    /\ response = <<>>
    /\ calls = <<>>
    /\ outcome = <<>>

\* analyze_text(text) is called
Analyze ==
    /\ out = NoOut
    /\ out' = analyze_text(text)
    /\ UNCHANGED <<text, pipeVars>>

NextAnalyze == Analyze

SpecAnalyze == InitAnalyze /\ [][NextAnalyze]_vars

\* ------------------------------------------------------------------ claims
PcValues == {"start", "fetch", "save", "notify", "done", "raised"}

Done(r) == pc[r] = "done"
TopOk(r) == outcome[r].top = "ok"
TopFailed(r) == outcome[r].top \in TopCauses

IsStored(o) == o.end = "stored"
IsFailed(o) == o.end # "stored"
IsStoryError(e) == e.kind = "Story failed"
IsNotifyError(e) == e.kind = "Notification failed"

\* the ids of the iterations of r that ended stored / failed, in loop order
StoredIds(r) == LET s == SelectSeq(outcome[r].items, IsStored)
                IN  [i \in 1..Len(s) |-> s[i].id]
FailedIds(r) == LET s == SelectSeq(outcome[r].items, IsFailed)
                IN  [i \in 1..Len(s) |-> s[i].id]

\* the rows of the table that request r wrote, in insertion order
RowsBy(r) == SelectSeq(db, LAMBDA row : row.by = r)

\* items holds one result per stored iteration, in loop order
ItemsMatchOutcome(r, items) ==
    /\ Len(items) = Len(StoredIds(r))
    /\ \A i \in 1..Len(items) :
        /\ Catalog[StoredIds(r)[i]].t = "obj"
        /\ items[i].original = TitleOf(Catalog[StoredIds(r)[i]].d)
        /\ items[i].stored = TRUE

\* errs holds one story error per failed iteration, in loop order
StoryErrorsMatchOutcome(r, errs) ==
    LET se == SelectSeq(errs, IsStoryError)
    IN  /\ Len(se) = Len(FailedIds(r))
        /\ \A i \in 1..Len(se) : se[i].id = FailedIds(r)[i]

\* C1: when the top-items call of a request fails, the request has returned
\* with items == [], notificationSent == false and errors holding exactly one
\* entry, which carries the cause of the failure; it has made no item-detail
\* call, no persistence call and no notification call, and has written no row.
C1_BatchFailureIsTotal ==
    \A r \in requests :
        TopFailed(r) =>
            /\ Done(r)
            /\ response[r].items = <<>>
            /\ response[r].notificationSent = FALSE
            /\ Len(response[r].errors) = 1
            /\ response[r].errors[1] = TopError(outcome[r].top)
            /\ calls[r].top = 1
            /\ calls[r].detail = <<>>
            /\ calls[r].save = 0
            /\ calls[r].notify = 0
            /\ RowsBy(r) = <<>>

C1_Witness == \E r \in requests : TopFailed(r) /\ Done(r) /\ topstories # <<>>

\* C2: when a request whose top-items call succeeded has returned, every one
\* of the (at most 3) fetched ids has been processed, in fetch order; items
\* holds exactly the results of the ids that did not fail, in fetch order;
\* errors holds exactly one entry per failed id, in fetch order; and
\* len(items) plus the number of per-item errors is the number of fetched ids.
C2_PerItemIsolation ==
    \A r \in requests :
        (Done(r) /\ TopOk(r)) =>
            /\ ids[r] = Take(topstories, 3)
            /\ Len(outcome[r].items) = Len(ids[r])
            /\ \A p \in 1..Len(ids[r]) : outcome[r].items[p].id = ids[r][p]
            /\ ItemsMatchOutcome(r, response[r].items)
            /\ StoryErrorsMatchOutcome(r, response[r].errors)
            /\ Len(response[r].items) + Len(SelectSeq(response[r].errors, IsStoryError))
                 = Len(ids[r])

\* the first id failed, the second was stored, the third failed
C2_Witness ==
    \E r \in requests :
        /\ Done(r) /\ TopOk(r)
        /\ Len(ids[r]) = 3
        /\ outcome[r].items[1].end = "fetch"
        /\ outcome[r].items[2].end = "stored"
        /\ outcome[r].items[3].end = "save"

\* C3 as stated: the notification step runs exactly once in every request.
C3_NotifyOncePerRequest ==
    \A r \in requests : Done(r) => calls[r].notify = 1

\* C3 as amended: the notification step never runs twice; a request whose
\* top-items call succeeded has run it exactly once when it returns, however
\* many items were stored, and notificationSent is true exactly when the
\* notification call returned; a request whose top-items call failed returns
\* without running it.
C3_NotifyOnceAfterLoop ==
    \A r \in requests :
        /\ calls[r].notify <= 1
        /\ (Done(r) /\ TopOk(r)) =>
              /\ calls[r].notify = 1
              /\ outcome[r].notify \in {"ok", "failed"}
              /\ response[r].notificationSent = (outcome[r].notify = "ok")
        /\ (Done(r) /\ TopFailed(r)) => calls[r].notify = 0

\* all three ids failed and the notification was still made
C3_Witness ==
    \E r \in requests :
        /\ Done(r) /\ TopOk(r)
        /\ Len(ids[r]) = 3
        /\ StoredIds(r) = <<>>
        /\ calls[r].notify = 1
        /\ response[r].notificationSent = TRUE

\* C4: when a request has returned, the rows it wrote correspond one-to-one,
\* in order, with the entries of its items (same title, summary and
\* sentiment, stored == true), and both are exactly the iterations that ended
\* stored: an id whose fetch, classification or save failed has neither.
C4_NoPartialPersistence ==
    \A r \in requests :
        Done(r) =>
            LET rows == RowsBy(r)
                items == response[r].items
            IN  /\ Len(rows) = Len(items)
                /\ Len(rows) = Len(StoredIds(r))
                /\ \A i \in 1..Len(rows) :
                    /\ rows[i].title = items[i].original
                    /\ rows[i].analysis = items[i].analysis
                    /\ rows[i].sentiment = items[i].sentiment
                    /\ items[i].stored = TRUE
                    /\ rows[i].title = TitleOf(Catalog[StoredIds(r)[i]].d)

\* a request returned after one save failed, one classification failed and
\* one item was stored
C4_Witness ==
    \E r \in requests :
        /\ Done(r)
        /\ Len(RowsBy(r)) = 1
        /\ \E p \in 1..Len(outcome[r].items) : outcome[r].items[p].end = "save"
        /\ \E p \in 1..Len(outcome[r].items) : outcome[r].items[p].end = "classify"

\* what a handler may have called so far: one top-items call at most, the
\* item-detail calls a prefix of its ids (each id once, in order, none
\* repeated), no more saves than item-detail calls, and nothing raised
C5_CallsBounded(r) ==
    /\ pc[r] \in PcValues \ {"raised"}
    /\ calls[r].top <= 1
    /\ Len(calls[r].detail) <= 3
    /\ calls[r].save <= 3
    /\ calls[r].save <= Len(calls[r].detail)
    /\ Len(calls[r].detail) <= Len(ids[r])
    /\ calls[r].detail = SubSeq(ids[r], 1, Len(calls[r].detail))
    /\ Done(r) => /\ calls[r].top = 1
                  /\ TopOk(r) => calls[r].detail = ids[r]
                  /\ response[r] # NoResponse

\* C5: every request returns a report, whatever fails, without an error
\* leaving the handler, after at most 1 top-items call, 3 item-detail calls
\* and 3 persistence calls, each id being tried once.
C5_RunsToCompletion ==
    /\ [](\A r \in requests : C5_CallsBounded(r))
    /\ <>(\A r \in requests : Done(r))

\* the request returned after every kind of failure short of the top-items one
C5_Witness ==
    \E r \in requests :
        /\ Done(r)
        /\ Len(calls[r].detail) = 3
        /\ calls[r].save = 2
        /\ outcome[r].notify = "failed"
        /\ Len(response[r].errors) = 3

\* C6: when the notification call of a request fails, the report has
\* notificationSent == false, its errors are the per-item errors in fetch
\* order followed by exactly one notification error, and its items are the
\* results the loop accumulated.
C6_NotificationFailure ==
    \A r \in requests :
        (Done(r) /\ outcome[r].notify = "failed") =>
            LET errs == response[r].errors
            IN  /\ response[r].notificationSent = FALSE
                /\ Len(errs) >= 1
                /\ IsNotifyError(errs[Len(errs)])
                /\ \A i \in 1..(Len(errs) - 1) : IsStoryError(errs[i])
                /\ StoryErrorsMatchOutcome(r, errs)
                /\ Len(SelectSeq(errs, IsNotifyError)) = 1
                /\ response[r].items = results[r]
                /\ ItemsMatchOutcome(r, response[r].items)

\* the notification failed after two items failed and one was stored
C6_Witness ==
    \E r \in requests :
        /\ Done(r)
        /\ outcome[r].notify = "failed"
        /\ Len(response[r].items) = 1
        /\ Len(response[r].errors) = 3

\* the content run_pipeline is to use for the item with this id: the body
\* when there is a non-empty one, else the title
Body(id) == Get(Catalog[id].d, "text", Str(<<>>))
ExpectedContent(id) == IF Truthy(Body(id)) THEN Body(id) ELSE TitleOf(Catalog[id].d)

\* C9: the content classified and the content stored are the title when the
\* item has no body or an empty one, and the body when it has one.
C9_FallbackContent ==
    \A r \in requests :
        /\ pc[r] = "save" =>
              /\ cur[r].content = ExpectedContent(StoryId(r))
              /\ cur[r].analysis = analyze_text(ExpectedContent(StoryId(r))).summary
              /\ cur[r].sentiment = analyze_text(ExpectedContent(StoryId(r))).sentiment
        /\ Len(RowsBy(r)) = Len(StoredIds(r))
        /\ \A i \in 1..Len(RowsBy(r)) :
              /\ RowsBy(r)[i].content = ExpectedContent(StoredIds(r)[i])
              /\ RowsBy(r)[i].analysis = analyze_text(ExpectedContent(StoredIds(r)[i])).summary
              /\ RowsBy(r)[i].sentiment = analyze_text(ExpectedContent(StoredIds(r)[i])).sentiment

\* rows were stored for an item without a body, one with a body and one with
\* an empty body
C9_Witness ==
    \E r \in requests :
        /\ StoredIds(r) = <<1, 2, 3>>
        /\ RowsBy(r)[1].content = TitleOf(Catalog[1].d)
        /\ RowsBy(r)[2].content = Catalog[2].d["text"]
        /\ RowsBy(r)[2].content # RowsBy(r)[2].title
        /\ RowsBy(r)[3].content = TitleOf(Catalog[3].d)

\* analyze_text has been called and has returned or raised
Called == out # NoOut

\* word occurs in s: some stretch of s is the word
Occurs(word, s) ==
    \E a \in 1..Len(s) :
        /\ a + Len(word) - 1 <= Len(s)
        /\ SubSeq(s, a, a + Len(word) - 1) = word

\* the number of words of the list that occur in the lower-cased text
Hits(words, s) == Cardinality({i \in DOMAIN words : Occurs(words[i], Lower(s))})

GreatGrowthNoProblem ==
    <<"g", "r", "e", "a", "t", " ", "g", "r", "o", "w", "t", "h", ",", " ", "n", "o", " ", "p", "r", "o", "b", "l", "e", "m">>

\* C7: analyze_text returns ("No content available.", "objective") for an
\* empty text; for any other text, with P and N the numbers of positive and
\* negative words occurring in the lower-cased text, the label is
\* "enthusiastic" when P > N, "critical" when N > P and "objective" when
\* P == N; "great growth, no problem" is "enthusiastic".
C7_Classification ==
    Called =>
        /\ ~Truthy(text) =>
              out = [raised |-> FALSE, summary |-> Str(NoContent),
                     sentiment |-> "objective"]
        /\ (text.t = "str" /\ text.s # <<>>) =>
              LET P == Hits(positive_words, text.s)
                  N == Hits(negative_words, text.s)
              IN  /\ ~out.raised
                  /\ out.sentiment \in {"enthusiastic", "critical", "objective"}
                  /\ (out.sentiment = "enthusiastic") <=> (P > N)
                  /\ (out.sentiment = "critical") <=> (N > P)
                  /\ (out.sentiment = "objective") <=> (P = N)
        /\ text = Str(GreatGrowthNoProblem) => out.sentiment = "enthusiastic"

\* "great growth, no problem" was classified, with two positive words and
\* one negative word
C7_Witness ==
    /\ Called
    /\ text = Str(GreatGrowthNoProblem)
    /\ Hits(positive_words, text.s) = 2
    /\ Hits(negative_words, text.s) = 1
    /\ out.sentiment = "enthusiastic"

\* C8: the summary of a non-empty text is its first 200 characters as they
\* are in the text: the whole text when it has 200 characters or fewer, and
\* exactly its first 200 when it has more.
C8_TruncationBound ==
    (Called /\ text.t = "str" /\ text.s # <<>>) =>
        /\ out.summary.t = "str"
        /\ Len(out.summary.s) <= 200
        /\ \A i \in 1..Len(out.summary.s) : out.summary.s[i] = text.s[i]
        /\ Len(text.s) <= 200 => out.summary.s = text.s
        /\ Len(text.s) > 200 => Len(out.summary.s) = 200

\* a text of more than 200 characters, with capitals, was summarised
C8_Witness ==
    /\ Called
    /\ text.t = "str"
    /\ Len(text.s) > 200
    /\ text.s[1] = "L"
    /\ Len(out.summary.s) = 200
    /\ out.summary.s[1] = "L"

\* db2 is db1 with rows added at its end
Extends(db2, db1) ==
    /\ Len(db2) >= Len(db1)
    /\ \A i \in 1..Len(db1) : db2[i] = db1[i]

\* the rows that hold the item with this id
RowsOf(id) == {i \in 1..Len(db) : db[i].title = TitleOf(Catalog[id].d)}

\* what holds of the table and the requests in every state
C10_Independent ==
    /\ \A i \in 1..Len(db) : db[i].id = i
    /\ \A r \in requests :
        /\ Len(RowsBy(r)) = Len(results[r])
        /\ ItemsMatchOutcome(r, results[r])
        /\ StoryErrorsMatchOutcome(r, errors[r])
        /\ Done(r) => Len(RowsBy(r)) = Len(response[r].items)
    /\ \A id \in StoryIds :
        Cardinality(RowsOf(id)) = Cardinality({r \in requests : \E i \in 1..Len(StoredIds(r)) :
                                                   StoredIds(r)[i] = id})

\* C10: whatever the interleaving of the requests, a step only adds rows at
\* the end of the table and leaves the rows there as they are; each request
\* has written one row per entry of its items; its items and errors are
\* those of its own iterations; and an item two requests stored has two rows.
C10_StorageOnlyGrows ==
    /\ [][Extends(db', db)]_vars
    /\ []C10_Independent

\* two requests stored the same item, and it has two rows
C10_Witness ==
    \E r1 \in requests, r2 \in requests :
        /\ r1 # r2
        /\ Done(r1) /\ Done(r2)
        /\ StoredIds(r1) = <<1>>
        /\ StoredIds(r2) = <<1>>
        /\ Cardinality(RowsOf(1)) = 2
        /\ Len(db) = 2

====
